---- MODULE Spec2Model ----
(***************************************************************************)
(* A model of the RAG demo service: the HTTP handlers of app/api/rag_api.py *)
(* over the RAGService registry (app/api/services/rag_service.py) and the   *)
(* four-stage agent pipeline (app/api/agents/agents.py).                    *)
(*                                                                          *)
(* Every handler is an `async def` run by one event loop, and the service   *)
(* code it calls blocks, so a handler gives way to other requests only      *)
(* where it awaits.  Nine of the ten handlers never await: each is one      *)
(* action.  The ingest handler awaits once, `await file.read()`, between    *)
(* its extension check and its service call: it is two actions, and any     *)
(* other handler (another ingest included) may run between them.  The agent *)
(* pipeline is split into its stages so that the order of the stages is     *)
(* visible; it never awaits, so no other handler runs while an execution is *)
(* in flight.                                                               *)
(*                                                                          *)
(* File names are sequences of tokens ("." and "/" are tokens of their own),*)
(* so that os.path.splitext, lower and lstrip are computed, not assumed.    *)
(***************************************************************************)
EXTENDS Integers, Sequences, FiniteSets, TLC

(* ------------------------------ bounds -------------------------------- *)
\* number of distinct byte contents a client uploads
MaxContent == 2
\* largest number of chunks the splitter returns for one file
MaxChunks == 2
\* the wall clock runs from 0 to MaxTime
MaxTime == 1
\* longest chat history kept by the model
MaxMsgs == 2
\* number of sessions created where the growth of the session maps is followed
MaxSessions == 51
\* largest number of ingest requests suspended in file.read() at one time
MaxUploads == 2

(* ------------------------- program constants -------------------------- *)
MAX_RETRIEVED_CHUNKS == 3
MAX_DOCUMENTS_IN_MEMORY == 50
MAX_SESSIONS_IN_MEMORY == 50
\* generate_answer's default k
DEFAULT_K == 4

VARIABLES
    chat_history,       \* RAGService.chat_history: session_id -> messages
    document_metadata,  \* RAGService.document_metadata, in insertion order
    content_hashes,     \* RAGService.content_hashes: content_hash -> filename
    session_registry,   \* RAGService.session_registry
    instances,          \* the lazily constructed handles that are stored
    store,              \* the chunks held by the Chroma collection
    now,                \* the wall clock read by datetime.now()
    pc,                 \* where the agent pipeline's execution stands
    agent,              \* the locals of AgentOrchestrator.execute
    stages,             \* the stages invoked by the current (or last) execution
    calls,              \* collaborator calls of the last handler (or execution)
    resp,               \* the last handler's HTTP response
    uploads             \* file name -> ingest requests suspended in file.read()

vars == <<chat_history, document_metadata, content_hashes, session_registry,
          instances, store, now, pc, agent, stages, calls, resp, uploads>>

registry == <<chat_history, document_metadata, content_hashes, session_registry>>

(* ------------------------------ helpers ------------------------------- *)
Max(S) == CHOOSE x \in S : \A y \in S : y <= x

Range(s) == {s[i] : i \in 1..Len(s)}

\* a dict as a function with a finite domain
Put(d, k, v) == [x \in DOMAIN d \cup {k} |-> IF x = k THEN v ELSE d[x]]

Del(d, k) == [x \in DOMAIN d \ {k} |-> d[x]]

EmptyDict == [x \in {} |-> 0]

(* --------------------------- file names ------------------------------- *)
\* str.lower() on one token
LowerToken(tok) ==
    CASE tok = "TXT" -> "txt"
      [] tok = "PDF" -> "pdf"
      [] tok = "Docx" -> "docx"
      [] OTHER -> tok

lower(s) == [i \in 1..Len(s) |-> LowerToken(s[i])]

\* str.lstrip('.')
RECURSIVE lstrip_dot(_)
lstrip_dot(s) ==
    IF s # <<>> /\ Head(s) = "." THEN lstrip_dot(Tail(s)) ELSE s

\* os.path.splitext(p)[1]: from the last dot of the last path component to the
\* end, unless only dots precede it in that component
splitext_ext(p) ==
    LET seps == {i \in 1..Len(p) : p[i] = "/"}
        sepIndex == IF seps = {} THEN 0 ELSE Max(seps)
        dots == {i \in 1..Len(p) : p[i] = "."}
        dotIndex == IF dots = {} THEN 0 ELSE Max(dots)
    IN  IF dotIndex > sepIndex
           /\ \E j \in (sepIndex + 1)..(dotIndex - 1) : p[j] # "."
        THEN SubSeq(p, dotIndex, Len(p))
        ELSE <<>>

\* os.path.join(temp_dir, file.filename)
temp_path(filename) == <<"tmp", "/">> \o filename

_get_file_type(file_path) == lstrip_dot(lower(splitext_ext(file_path)))

\* mutant: the handler also lets .docx through
supported_types_docx ==
    {<<".", "pdf">>, <<".", "txt">>, <<".", "csv">>, <<".", "xlsx">>, <<".", "xls">>,
     <<".", "docx">>}

supported_types ==
    {<<".", "pdf">>, <<".", "txt">>, <<".", "csv">>, <<".", "xlsx">>, <<".", "xls">>}

valid_types == {<<"pdf">>, <<"txt">>, <<"csv">>, <<"xlsx">>, <<"xls">>}

\* the file names a client uploads
FileNames ==
    {<<"a", ".", "txt">>, <<"b", ".", "PDF">>, <<"c", ".", "docx">>,
     <<".", "txt">>, <<"d">>, <<"e", ".", "tar", ".", "csv">>}

\* the byte contents a client uploads
Contents == 1..MaxContent

\* hashlib.sha256(bytes).hexdigest(): equal bytes give equal digests
sha256(content) == <<"sha256", content>>

(* ------------------------------ identifiers --------------------------- *)
\* documents whose chunks an earlier process left in the persistent collection
PersistedChunks ==
    {[document_id |-> "doc1", filename |-> <<"a", ".", "txt">>,
      content_hash |-> sha256(1), n |-> 1],
     [document_id |-> "doc1", filename |-> <<"a", ".", "txt">>,
      content_hash |-> sha256(1), n |-> 2],
     [document_id |-> "doc2", filename |-> <<"b", ".", "PDF">>,
      content_hash |-> sha256(2), n |-> 1]}

\* a collection that holds more chunks than either search asks for
LargeCollection ==
    PersistedChunks \cup
        {[document_id |-> "doc2", filename |-> <<"b", ".", "PDF">>,
          content_hash |-> sha256(2), n |-> 2]}

\* the values uuid.uuid4() draws from
Uuids == {"u1", "u2"}

\* the document ids a client names in DELETE /documents/{id}
DocumentIds == {"doc1", "doc2", "u1", "u2", "nope"}

\* the values uuid.uuid4() draws from in start_new_session
SessionUuids == {"u1"}

\* the session ids a client names
SessionIds == {"u1", "s1"}

\* the exceptions a collaborator raises ("none": it returns)
ExcKinds == {"none", "ValueError", "RuntimeError"}

\* the same for the query handlers, which answer every exception alike
QueryExcKinds == {"none", "RuntimeError"}

(* --------------------- lazily constructed handles --------------------- *)
\* what a handler meets in its collaborators: the exception (or none) raised by
\* each constructor and each call, and the values they return
IngestEnv ==
    [embeddings : ExcKinds, vector_store : ExcKinds, load : ExcKinds,
     n_chunks : 0..MaxChunks, add : ExcKinds, uuid : Uuids]

DeleteEnv == [embeddings : ExcKinds, vector_store : ExcKinds, delete : ExcKinds]

QueryEnv ==
    [embeddings : QueryExcKinds, vector_store : QueryExcKinds, llm : QueryExcKinds,
     search : QueryExcKinds, invoke : QueryExcKinds]

PlanEnv ==
    [embeddings : QueryExcKinds, vector_store : QueryExcKinds, llm : QueryExcKinds,
     invoke : QueryExcKinds]

Got(exc, inst) == [exc |-> exc, instances |-> inst]

get_embeddings(inst, x) ==
    IF "embeddings" \in inst THEN Got("none", inst)
    ELSE IF x.embeddings # "none" THEN Got(x.embeddings, inst)
    ELSE Got("none", inst \cup {"embeddings"})

\* mutant: the chat-model client is built on every call, stored or not
get_llm_rebuilding(inst, x) ==
    IF x.llm # "none" THEN Got(x.llm, inst)
    ELSE Got("none", inst \cup {"llm"})

get_llm(inst, x) ==
    IF "llm" \in inst THEN Got("none", inst)
    ELSE IF x.llm # "none" THEN Got(x.llm, inst)
    ELSE Got("none", inst \cup {"llm"})

get_vector_store(inst, x) ==
    IF "vector_store" \in inst THEN Got("none", inst)
    ELSE LET e == get_embeddings(inst, x)
         IN  IF e.exc # "none" THEN e
             ELSE IF x.vector_store # "none" THEN Got(x.vector_store, e.instances)
             ELSE Got("none", e.instances \cup {"vector_store"})

get_agent_orchestrator(inst, x) ==
    IF "agent_orchestrator" \in inst THEN Got("none", inst)
    ELSE LET l == get_llm(inst, x)
         IN  IF l.exc # "none" THEN l
             ELSE LET v == get_vector_store(l.instances, x)
                  IN  IF v.exc # "none" THEN v
                      ELSE Got("none", v.instances \cup {"agent_orchestrator"})

(* ------------------------- document registry -------------------------- *)
\* the methods class RAGService defines
RAGServiceMethods ==
    {"__init__", "get_embeddings", "get_llm", "get_vector_store",
     "get_agent_orchestrator", "_load_pdf", "_load_txt", "_load_csv",
     "_load_excel", "_get_file_type", "_load_document_by_type",
     "ingest_document", "generate_answer", "generate_answer_with_agents",
     "_load_existing_document_metadata", "get_uploaded_documents",
     "delete_document", "start_new_session", "clear_session_history",
     "get_all_sessions", "get_session_history", "add_message_to_session",
     "_load_existing_sessions"}

\* the statements that follow get_agent_orchestrator's return: the file exists
\* (the handler has just written it), so only the type check can raise
_validate_file(file_type) ==
    IF file_type \notin valid_types THEN "ValueError" ELSE "none"

\* self._validate_file(file_path, file_type): the attribute lookup comes first
call_validate_file(file_type) ==
    IF "_validate_file" \notin RAGServiceMethods THEN "AttributeError"
    ELSE _validate_file(file_type)

\* _load_document_by_type: the loader's exception, or none
_load_document_by_type(file_type, x) ==
    IF file_type \in valid_types THEN x.load ELSE "ValueError"

DocIds(dm) == {dm[i].id : i \in 1..Len(dm)}

DocHashes(dm) == {dm[i].content_hash : i \in 1..Len(dm)}

DocIndex(dm, id) == CHOOSE i \in 1..Len(dm) : dm[i].id = id

RemoveAt(s, i) == SubSeq(s, 1, i - 1) \o SubSeq(s, i + 1, Len(s))

\* what a service method leaves behind: the exception it raised (or none), its
\* return value, the registry maps, the collection, the handles, the calls made
Outcome(exc, ret, dm, ch, st, inst, cs) ==
    [exc |-> exc, ret |-> ret, document_metadata |-> dm, content_hashes |-> ch,
     store |-> st, instances |-> inst, calls |-> cs]

Raised(exc, inst, cs) ==
    Outcome(exc, 0, document_metadata, content_hashes, store, inst, cs)

\* RAGService.ingest_document(file_path, filename) on a file holding `content`
ingest_document(file_path, filename, content, x) ==
    LET content_hash == sha256(content)
        file_type == _get_file_type(file_path)
        document_id == x.uuid
        docs_chunks ==
            {[document_id |-> document_id, filename |-> filename,
              content_hash |-> content_hash, n |-> n] : n \in 1..x.n_chunks}
        vs == get_vector_store(instances, x)
        kept == IF Len(document_metadata) >= MAX_DOCUMENTS_IN_MEMORY
                THEN Tail(document_metadata) ELSE document_metadata
    IN  IF content_hash \in DOMAIN content_hashes
        THEN Raised("ValueError", instances, <<>>)
        ELSE IF call_validate_file(file_type) # "none"
        THEN Raised(call_validate_file(file_type), instances, <<>>)
        ELSE IF _load_document_by_type(file_type, x) # "none"
        THEN Raised(_load_document_by_type(file_type, x), instances, <<"load">>)
        ELSE IF x.n_chunks = 0
        THEN Raised("IndexError", instances, <<"load", "split">>)
        ELSE IF vs.exc # "none"
        THEN Raised(vs.exc, vs.instances, <<"load", "split">>)
        ELSE IF x.add # "none"
        THEN Raised(x.add, vs.instances, <<"load", "split", "add_documents">>)
        ELSE Outcome("none", x.n_chunks,
                     Append(kept, [id |-> document_id, filename |-> filename,
                                   content_hash |-> content_hash]),
                     Put(content_hashes, content_hash, filename),
                     store \cup docs_chunks, vs.instances,
                     <<"load", "split", "add_documents">>)

\* mutant: no membership check first, so an unknown id reaches the collection and
\* the lookup of its metadata raises KeyError
delete_document_unchecked(document_id, x) ==
    LET vs == get_vector_store(instances, x)
        left == {c \in store : c.document_id # document_id}
    IN  IF vs.exc # "none"
        THEN Raised(vs.exc, vs.instances, <<>>)
        ELSE IF x.delete # "none"
        THEN Raised(x.delete, vs.instances, <<"delete">>)
        ELSE Outcome("KeyError", 0, document_metadata, content_hashes, left,
                     vs.instances, <<"delete">>)

\* RAGService.delete_document(document_id)
delete_document(document_id, x) ==
    LET vs == get_vector_store(instances, x)
        left == {c \in store : c.document_id # document_id}
        content_hash ==
            document_metadata[DocIndex(document_metadata, document_id)].content_hash
    IN  IF document_id \notin DocIds(document_metadata)
        THEN Raised("ValueError", instances, <<>>)
        ELSE IF vs.exc # "none"
        THEN Raised(vs.exc, vs.instances, <<>>)
        ELSE IF x.delete # "none"
        THEN Raised(x.delete, vs.instances, <<"delete">>)
        ELSE IF content_hash \notin DOMAIN content_hashes
        THEN Outcome("KeyError", 0, document_metadata, content_hashes, left,
                     vs.instances, <<"delete">>)
        ELSE Outcome("none", 0,
                     RemoveAt(document_metadata,
                              DocIndex(document_metadata, document_id)),
                     Del(content_hashes, content_hash), left, vs.instances,
                     <<"delete">>)

\* RAGService.get_uploaded_documents()
get_uploaded_documents ==
    [i \in 1..Len(document_metadata) |->
        [id |-> document_metadata[i].id, filename |-> document_metadata[i].filename]]

(* -------------------------- session registry -------------------------- *)
SessIds(sr) == {sr[i].session_id : i \in 1..Len(sr)}

SessIndex(sr, id) == CHOOSE i \in 1..Len(sr) : sr[i].session_id = id

\* session_registry[session_id] = {...}: a new key goes last, a known key keeps
\* its place
SetSession(sr, id, created_at, last_accessed) ==
    LET rec == [session_id |-> id, created_at |-> created_at,
                last_accessed |-> last_accessed]
    IN  IF id \in SessIds(sr)
        THEN [i \in 1..Len(sr) |-> IF sr[i].session_id = id THEN rec ELSE sr[i]]
        ELSE Append(sr, rec)

\* session_registry[session_id]["last_accessed"] = datetime.now().isoformat()
Touch(sr, id, t) ==
    [i \in 1..Len(sr) |->
        IF sr[i].session_id = id THEN [sr[i] EXCEPT !.last_accessed = t] ELSE sr[i]]

\* mutant: the new session gets its history but no registry entry
start_new_session_unregistered(session_id, ts) ==
    [chat_history |-> Put(chat_history, session_id, <<>>),
     session_registry |-> session_registry,
     ret |-> session_id]

\* RAGService.start_new_session() with uuid4() returning session_id and the
\* two datetime.now() calls returning ts[1] (created_at) and ts[2]
\* (last_accessed)
start_new_session(session_id, ts) ==
    [chat_history |-> Put(chat_history, session_id, <<>>),
     session_registry |-> SetSession(session_registry, session_id, ts[1], ts[2]),
     ret |-> session_id]

\* mutant: clearing a session forgets it altogether
clear_session_history_forgets(session_id) ==
    [chat_history |->
        IF session_id \in DOMAIN chat_history
        THEN Del(chat_history, session_id)
        ELSE chat_history,
     session_registry |->
        IF session_id \in SessIds(session_registry)
        THEN RemoveAt(session_registry, SessIndex(session_registry, session_id))
        ELSE session_registry]

\* RAGService.clear_session_history(session_id)
clear_session_history(session_id) ==
    [chat_history |->
        IF session_id \in DOMAIN chat_history
        THEN [chat_history EXCEPT ![session_id] = <<>>]
        ELSE chat_history,
     session_registry |-> session_registry]

\* mutant: the history is read with chat_history[session_id], and the
\* defaultdict creates the entry of an unknown id
get_session_history_subscript(session_id, ts) ==
    [chat_history |->
        IF session_id \in DOMAIN chat_history THEN chat_history
        ELSE Put(chat_history, session_id, <<>>),
     session_registry |->
        IF session_id \in SessIds(session_registry)
        THEN Touch(session_registry, session_id, ts[1])
        ELSE session_registry,
     ret |-> IF session_id \in DOMAIN chat_history
             THEN chat_history[session_id] ELSE <<>>]

\* RAGService.get_session_history(session_id); datetime.now() is called, and
\* returns ts[1], only for a registered session
get_session_history(session_id, ts) ==
    [chat_history |-> chat_history,
     session_registry |->
        IF session_id \in SessIds(session_registry)
        THEN Touch(session_registry, session_id, ts[1])
        ELSE session_registry,
     ret |-> IF session_id \in DOMAIN chat_history
             THEN chat_history[session_id] ELSE <<>>]

\* mutant: the message is stored but an unknown session is not registered
add_message_to_session_unregistered(session_id, role, content, ts) ==
    LET ch1 == IF session_id \notin DOMAIN chat_history
               THEN Put(chat_history, session_id, <<>>)
               ELSE chat_history
        message == [role |-> role, content |-> content]
    IN  [chat_history |-> [ch1 EXCEPT ![session_id] = Append(@, message)],
         session_registry |-> Touch(session_registry, session_id, ts[Len(ts)])]

\* mutant: the history list is created anew by every call, as it would be for
\* a caller that saw the session missing while another call was creating it
add_message_to_session_overwriting(session_id, role, content, ts) ==
    LET sr1 == IF session_id \notin SessIds(session_registry)
               THEN SetSession(session_registry, session_id, ts[1], ts[2])
               ELSE session_registry
        ch1 == Put(chat_history, session_id, <<>>)
        message == [role |-> role, content |-> content]
    IN  [chat_history |-> [ch1 EXCEPT ![session_id] = Append(@, message)],
         session_registry |-> Touch(sr1, session_id, ts[Len(ts)])]

\* RAGService.add_message_to_session(session_id, role, content).  ts holds what
\* its datetime.now() calls return, in order: for an unregistered session
\* created_at, last_accessed and the closing last_accessed that replaces it
\* (three readings), for a registered one the closing last_accessed alone
add_message_to_session(session_id, role, content, ts) ==
    LET sr1 == IF session_id \notin SessIds(session_registry)
               THEN SetSession(session_registry, session_id, ts[1], ts[2])
               ELSE session_registry
        ch1 == IF session_id \notin DOMAIN chat_history
               THEN Put(chat_history, session_id, <<>>)
               ELSE chat_history
        message == [role |-> role, content |-> content]
    IN  [chat_history |-> [ch1 EXCEPT ![session_id] = Append(@, message)],
         session_registry |-> Touch(sr1, session_id, ts[Len(ts)])]

\* mutant: the sort without reverse=True
InsertAsc(sorted, e) ==
    LET k == Cardinality({i \in 1..Len(sorted) :
                            sorted[i].last_accessed <= e.last_accessed})
    IN  SubSeq(sorted, 1, k) \o <<e>> \o SubSeq(sorted, k + 1, Len(sorted))

\* list.sort(key=last_accessed, reverse=True): stable, so entries with equal
\* keys keep the order they had.  The keys are isoformat() strings of one
\* clock, whose order as strings is the order of the times.
InsertDesc(sorted, e) ==
    LET k == Cardinality({i \in 1..Len(sorted) :
                            sorted[i].last_accessed >= e.last_accessed})
    IN  SubSeq(sorted, 1, k) \o <<e>> \o SubSeq(sorted, k + 1, Len(sorted))

RECURSIVE sort_desc(_)
sort_desc(s) ==
    IF s = <<>> THEN <<>>
    ELSE InsertDesc(sort_desc(SubSeq(s, 1, Len(s) - 1)), s[Len(s)])

\* the list get_all_sessions builds from the session registry sr and the
\* chat-history map ch
all_sessions(sr, ch) ==
    sort_desc([i \in 1..Len(sr) |->
        [session_id |-> sr[i].session_id,
         created_at |-> sr[i].created_at,
         last_accessed |-> sr[i].last_accessed,
         message_count |->
            IF sr[i].session_id \in DOMAIN ch
            THEN Len(ch[sr[i].session_id]) ELSE 0]])

\* RAGService.get_all_sessions()
get_all_sessions == all_sessions(session_registry, chat_history)

\* the roles and texts a client sends
Roles == {"user", "assistant", "system"}

Texts == {"hi"}

(* ------------------------------ queries ------------------------------- *)
\* the queries a client sends, as token sequences (" " is whitespace)
Queries == {<<>>, <<" ">>, <<"q">>, <<" ", "q", " ">>}

\* str.strip()
RECURSIVE strip(_)
strip(q) ==
    IF q = <<>> THEN q
    ELSE IF Head(q) = " " THEN strip(Tail(q))
    ELSE IF q[Len(q)] = " " THEN strip(SubSeq(q, 1, Len(q) - 1))
    ELSE q

\* document_name as sent by a client: <<>> stands for a missing or empty one
DocumentNames == {<<>>, <<"a", ".", "txt">>, <<"c", ".", "docx">>}

\* the text a chat-model call returns
LlmText == "llm text"

\* Chroma's similarity_search_with_score(query, k, filter): the nearest k of the
\* chunks that match the filter, whatever their distance
similarity_search(st, k, filename) ==
    LET matching == IF filename = <<>> THEN st
                    ELSE {c \in st : c.filename = filename}
        n == IF Cardinality(matching) < k THEN Cardinality(matching) ELSE k
    IN  {S \in SUBSET matching : Cardinality(S) = n}

(* ------------------------------ responses ----------------------------- *)
\* chunks: the chunks an ingest stored, or a simple query put into its prompt
Resp(op, status, exc) ==
    [op |-> op, status |-> status, exc |-> exc, id |-> "", filename |-> <<>>,
     chunks |-> 0, answer |-> "", plan |-> <<>>, reasoning |-> "",
     agent_reasoning |-> FALSE]

AgentIdle == [query |-> <<>>, plan |-> <<>>, documents |-> {}, analysis |-> ""]

Init ==
    /\ chat_history = EmptyDict
    /\ document_metadata = <<>>
    /\ content_hashes = EmptyDict
    /\ session_registry = <<>>
    /\ instances = {}
    /\ store \in SUBSET PersistedChunks
    /\ now = 0
    /\ pc = "idle"
    /\ agent = AgentIdle
    /\ stages = <<>>
    /\ calls = <<>>
    /\ resp = Resp("none", 0, "none")
    /\ uploads = [f \in FileNames |-> 0]

(* ------------------------- document handlers -------------------------- *)
\* rag_api.ingest_document: the extension check on file.filename
api_supported(filename) == lower(splitext_ext(filename)) \in supported_types

\* rag_api.ingest_document: the status a service exception is answered with
ingest_status(exc) ==
    IF exc = "none" THEN 200 ELSE IF exc = "ValueError" THEN 409 ELSE 500

\* rag_api.delete_document: the status a service exception is answered with
delete_status(exc) ==
    IF exc = "none" THEN 200 ELSE IF exc = "ValueError" THEN 404 ELSE 500

UsedDocIds == DocIds(document_metadata) \cup {c.document_id : c \in store}

RECURSIVE Total(_, _)
Total(f, S) ==
    IF S = {} THEN 0
    ELSE LET e == CHOOSE e \in S : TRUE IN f[e] + Total(f, S \ {e})

\* the number of ingest requests suspended in file.read()
Suspended == Total(uploads, FileNames)

\* POST /ingest up to `content = await file.read()`: the extension check is
\* answered 400 at once; otherwise the handler opens its temporary file and is
\* suspended, and the event loop serves other requests
IngestRead(filename) ==
    /\ pc = "idle"
    /\ IF ~api_supported(filename)
       THEN /\ resp' = [Resp("ingest", 400, "HTTPException") EXCEPT
                            !.filename = filename]
            /\ calls' = <<>>
            /\ UNCHANGED uploads
       ELSE /\ Suspended < MaxUploads
            /\ uploads' = [uploads EXCEPT ![filename] = @ + 1]
            /\ UNCHANGED <<resp, calls>>
    /\ UNCHANGED <<registry, instances, store, now, pc, agent, stages>>

\* POST /ingest from the return of file.read(), which gave the bytes `content`:
\* the file is written, the service is called and the request is answered
Ingest(filename, content, x) ==
    /\ pc = "idle"
    /\ uploads[filename] > 0
    /\ x.uuid \notin UsedDocIds
    /\ LET r == ingest_document(temp_path(filename), filename, content, x)
       IN  /\ document_metadata' = r.document_metadata
           /\ content_hashes' = r.content_hashes
           /\ store' = r.store
           /\ instances' = r.instances
           /\ calls' = r.calls
           /\ resp' = [Resp("ingest", ingest_status(r.exc), r.exc) EXCEPT
                           !.filename = filename, !.chunks = r.ret]
    /\ uploads' = [uploads EXCEPT ![filename] = @ - 1]
    /\ UNCHANGED <<chat_history, session_registry, now, pc, agent, stages>>

\* DELETE /documents/{document_id}
Delete(document_id, x) ==
    /\ pc = "idle"
    /\ LET r == delete_document(document_id, x)
       IN  /\ document_metadata' = r.document_metadata
           /\ content_hashes' = r.content_hashes
           /\ store' = r.store
           /\ instances' = r.instances
           /\ calls' = r.calls
           /\ resp' = [Resp("delete", delete_status(r.exc), r.exc) EXCEPT
                           !.id = document_id]
    /\ UNCHANGED <<chat_history, session_registry, now, pc, agent, stages, uploads>>

\* GET /documents
ListDocuments ==
    /\ pc = "idle"
    /\ resp' = Resp("documents", 200, "none")
    /\ calls' = <<>>
    /\ UNCHANGED <<registry, instances, store, now, pc, agent, stages, uploads>>

(* -------------------------- session handlers -------------------------- *)
\* what n successive datetime.now() calls of one handler may return: each
\* reading is the instant of the reading before it (before the first: of the
\* last reading of an earlier handler) or the next instant
Readings(n) ==
    {ts \in [1..n -> now..MaxTime] :
        \A i \in 1..n : ts[i] - (IF i = 1 THEN now ELSE ts[i - 1]) \in {0, 1}}

\* the clock after a handler that took the readings ts
LastReading(ts) == IF Len(ts) = 0 THEN now ELSE ts[Len(ts)]

\* POST /chat/new_session; uuid4() returns an id no session has
CreateSession(session_id, ts) ==
    /\ pc = "idle"
    /\ session_id \notin SessIds(session_registry) \cup DOMAIN chat_history
    /\ Len(ts) = 2
    /\ LET r == start_new_session(session_id, ts)
       IN  /\ chat_history' = r.chat_history
           /\ session_registry' = r.session_registry
           /\ resp' = [Resp("new_session", 200, "none") EXCEPT !.id = r.ret]
    /\ now' = LastReading(ts)
    /\ calls' = <<>>
    /\ UNCHANGED <<document_metadata, content_hashes, instances, store, pc,
                   agent, stages, uploads>>

\* POST /chat/sessions/{session_id}/message
AppendMessage(session_id, role, content, ts) ==
    /\ pc = "idle"
    /\ session_id \in DOMAIN chat_history => Len(chat_history[session_id]) < MaxMsgs
    /\ Len(ts) = IF session_id \in SessIds(session_registry) THEN 1 ELSE 3
    /\ LET r == add_message_to_session(session_id, role, content, ts)
       IN  /\ chat_history' = r.chat_history
           /\ session_registry' = r.session_registry
    /\ resp' = [Resp("message", 200, "none") EXCEPT !.id = session_id]
    /\ now' = LastReading(ts)
    /\ calls' = <<>>
    /\ UNCHANGED <<document_metadata, content_hashes, instances, store, pc,
                   agent, stages, uploads>>

\* GET /chat/sessions/{session_id}
GetHistory(session_id, ts) ==
    /\ pc = "idle"
    /\ Len(ts) = IF session_id \in SessIds(session_registry) THEN 1 ELSE 0
    /\ LET r == get_session_history(session_id, ts)
       IN  /\ chat_history' = r.chat_history
           /\ session_registry' = r.session_registry
    /\ resp' = [Resp("history", 200, "none") EXCEPT !.id = session_id]
    /\ now' = LastReading(ts)
    /\ calls' = <<>>
    /\ UNCHANGED <<document_metadata, content_hashes, instances, store, pc,
                   agent, stages, uploads>>

\* DELETE /chat/clear_session/{session_id}
ClearHistory(session_id) ==
    /\ pc = "idle"
    /\ LET r == clear_session_history(session_id)
       IN  /\ chat_history' = r.chat_history
           /\ session_registry' = r.session_registry
    /\ resp' = [Resp("clear", 200, "none") EXCEPT !.id = session_id]
    /\ calls' = <<>>
    /\ UNCHANGED <<document_metadata, content_hashes, instances, store, now, pc,
                   agent, stages, uploads>>

\* GET /chat/sessions
ListSessions ==
    /\ pc = "idle"
    /\ resp' = Resp("sessions", 200, "none")
    /\ calls' = <<>>
    /\ UNCHANGED <<registry, instances, store, now, pc, agent, stages, uploads>>

(* --------------------------- query handlers --------------------------- *)
NoInfoSimple == "No relevant information in the provided documents"

NoInfoAgent == "No relevant information found in documents"

\* mutant: the query is tested without strip()
empty_query_unstripped(query) == query = <<>>

\* rag_api: `if not query.strip()`
empty_query(query) == strip(query) = <<>>

\* mutant: the chat model is asked even when the search returned nothing
generate_answer_always_invokes(query, document_name, search_results, x) ==
    LET vs == get_vector_store(instances, x)
        llm == get_llm(vs.instances, x)
        Out(exc, answer, inst, cs) ==
            [exc |-> exc, answer |-> answer, instances |-> inst, calls |-> cs]
    IN  IF vs.exc # "none" THEN Out(vs.exc, "", vs.instances, <<>>)
        ELSE IF x.search # "none" THEN Out(x.search, "", vs.instances, <<"search">>)
        ELSE IF llm.exc # "none" THEN Out(llm.exc, "", llm.instances, <<"search">>)
        ELSE IF x.invoke # "none"
        THEN Out(x.invoke, "", llm.instances, <<"search", "invoke">>)
        ELSE Out("none", LlmText, llm.instances, <<"search", "invoke">>)

\* RAGService.generate_answer(query, session_id, document_name=document_name),
\* the search returning search_results
generate_answer(query, document_name, search_results, x) ==
    LET vs == get_vector_store(instances, x)
        llm == get_llm(vs.instances, x)
        Out(exc, answer, inst, cs) ==
            [exc |-> exc, answer |-> answer, instances |-> inst, calls |-> cs]
    IN  IF vs.exc # "none" THEN Out(vs.exc, "", vs.instances, <<>>)
        ELSE IF x.search # "none" THEN Out(x.search, "", vs.instances, <<"search">>)
        ELSE IF search_results = {}
        THEN Out("none", NoInfoSimple, vs.instances, <<"search">>)
        ELSE IF llm.exc # "none" THEN Out(llm.exc, "", llm.instances, <<"search">>)
        ELSE IF x.invoke # "none"
        THEN Out(x.invoke, "", llm.instances, <<"search", "invoke">>)
        ELSE Out("none", LlmText, llm.instances, <<"search", "invoke">>)

\* rag_api.get_query_response and get_query_response_with_agents: every
\* exception of the service is answered 500
query_status(exc) == IF exc = "none" THEN 200 ELSE 500

\* mutant: the simple query stores the question in the session it names, as
\* append_message would
SimpleQuery_recording(query, session_id, document_name, x) ==
    /\ pc = "idle"
    /\ IF empty_query(query)
       THEN /\ resp' = Resp("query", 400, "HTTPException")
            /\ calls' = <<>>
            /\ UNCHANGED <<instances, chat_history, session_registry>>
       ELSE \E search_results \in similarity_search(store, DEFAULT_K, document_name) :
              LET r == generate_answer(query, document_name, search_results, x)
                  a == add_message_to_session(session_id, "user", query,
                                              <<now, now, now>>)
              IN  /\ instances' = r.instances
                  /\ calls' = r.calls
                  /\ chat_history' = a.chat_history
                  /\ session_registry' = a.session_registry
                  /\ resp' = [Resp("query", query_status(r.exc), r.exc) EXCEPT
                                  !.answer = r.answer]
    /\ UNCHANGED <<document_metadata, content_hashes, store, now, pc, agent, stages, uploads>>

\* POST /query
SimpleQuery(query, session_id, document_name, x) ==
    /\ pc = "idle"
    /\ IF empty_query(query)
       THEN /\ resp' = Resp("query", 400, "HTTPException")
            /\ calls' = <<>>
            /\ UNCHANGED instances
       ELSE \E search_results \in similarity_search(store, DEFAULT_K, document_name) :
              LET r == generate_answer(query, document_name, search_results, x)
              IN  /\ instances' = r.instances
                  /\ calls' = r.calls
                  /\ resp' = [Resp("query", query_status(r.exc), r.exc) EXCEPT
                                  !.answer = r.answer,
                                  !.chunks = IF r.exc = "none"
                                             THEN Cardinality(search_results)
                                             ELSE 0]
    /\ UNCHANGED <<registry, store, now, pc, agent, stages, uploads>>

\* mutant: the pipeline never short-circuits
no_documents_never(documents) == FALSE

\* AgentOrchestrator.execute: `if not documents`
no_documents(documents) == documents = {}

\* mutant: the short-circuit result drops the plan
no_documents_result_without_plan(plan) ==
    [Resp("agents", 200, "none") EXCEPT
        !.answer = NoInfoAgent,
        !.reasoning = "No documents retrieved", !.agent_reasoning = TRUE]

\* AgentOrchestrator.execute: the result returned when nothing was retrieved
no_documents_result(plan) ==
    [Resp("agents", 200, "none") EXCEPT
        !.answer = NoInfoAgent, !.plan = plan,
        !.reasoning = "No documents retrieved", !.agent_reasoning = TRUE]

\* AgentOrchestrator.execute: the result returned after the respond stage
final_result(response, plan, analysis) ==
    [Resp("agents", 200, "none") EXCEPT
        !.answer = response, !.plan = plan, !.reasoning = analysis,
        !.agent_reasoning = TRUE]

\* mutant: an exception in a stage is swallowed and what the execution holds so
\* far is returned
AgentFails_partial(exc) ==
    /\ resp' = [Resp("agents", 200, "none") EXCEPT
                    !.plan = agent.plan, !.reasoning = agent.analysis,
                    !.agent_reasoning = TRUE]
    /\ pc' = "idle"
    /\ agent' = AgentIdle

\* an exception leaves execute and the handler answers 500
AgentFails(exc) ==
    /\ resp' = Resp("agents", query_status(exc), exc)
    /\ pc' = "idle"
    /\ agent' = AgentIdle

\* POST /query/agents up to the end of stage 1: the query check, the lazily
\* built orchestrator, PlannerAgent.plan
AgentPlan(query, session_id, document_name, x) ==
    /\ pc = "idle"
    /\ IF empty_query(query)
       THEN /\ resp' = Resp("agents", 400, "HTTPException")
            /\ stages' = <<>>
            /\ calls' = <<>>
            /\ UNCHANGED <<instances, pc, agent>>
       ELSE LET o == get_agent_orchestrator(instances, x)
            IN  /\ instances' = o.instances
                /\ IF o.exc # "none"
                   THEN /\ AgentFails(o.exc)
                        /\ stages' = <<>>
                        /\ calls' = <<>>
                   ELSE /\ stages' = <<"plan">>
                        /\ calls' = <<"invoke">>
                        /\ IF x.invoke # "none"
                           THEN AgentFails(x.invoke)
                           ELSE /\ pc' = "planned"
                                /\ agent' = [AgentIdle EXCEPT !.query = query,
                                                              !.plan = <<LlmText>>]
                                /\ resp' = Resp("agents", 0, "none")
    /\ UNCHANGED <<registry, store, now, uploads>>

\* stage 2: RetrieverAgent.retrieve, then the branch on its result
AgentRetrieve(x) ==
    /\ pc = "planned"
    /\ stages' = Append(stages, "retrieve")
    /\ calls' = Append(calls, "search")
    /\ IF x.search # "none"
       THEN AgentFails(x.search)
       ELSE \E documents \in similarity_search(store, MAX_RETRIEVED_CHUNKS, <<>>) :
              IF no_documents(documents)
              THEN /\ resp' = no_documents_result(agent.plan)
                   /\ pc' = "idle"
                   /\ agent' = AgentIdle
              ELSE /\ pc' = "retrieved"
                   /\ agent' = [agent EXCEPT !.documents = documents]
                   /\ UNCHANGED resp
    /\ UNCHANGED <<registry, instances, store, now, uploads>>

\* mutant: a reason stage that raised is invoked again
AgentReason_retrying(x) ==
    /\ pc = "retrieved"
    /\ stages' = Append(stages, "reason")
    /\ calls' = Append(calls, "invoke")
    /\ IF x.invoke # "none"
       THEN UNCHANGED <<pc, agent, resp>>
       ELSE /\ pc' = "reasoned"
            /\ agent' = [agent EXCEPT !.analysis = LlmText]
            /\ UNCHANGED resp
    /\ UNCHANGED <<registry, instances, store, now, uploads>>

\* stage 3: ReasoningAgent.reason
AgentReason(x) ==
    /\ pc = "retrieved"
    /\ stages' = Append(stages, "reason")
    /\ calls' = Append(calls, "invoke")
    /\ IF x.invoke # "none"
       THEN AgentFails(x.invoke)
       ELSE /\ pc' = "reasoned"
            /\ agent' = [agent EXCEPT !.analysis = LlmText]
            /\ UNCHANGED resp
    /\ UNCHANGED <<registry, instances, store, now, uploads>>

\* stage 4: ResponseAgent.generate_response, then the result
AgentRespond(x) ==
    /\ pc = "reasoned"
    /\ stages' = Append(stages, "respond")
    /\ calls' = Append(calls, "invoke")
    /\ IF x.invoke # "none"
       THEN AgentFails(x.invoke)
       ELSE /\ resp' = final_result(LlmText, agent.plan, agent.analysis)
            /\ pc' = "idle"
            /\ agent' = AgentIdle
    /\ UNCHANGED <<registry, instances, store, now, uploads>>

(* --------------------------- specifications --------------------------- *)
DocumentStep ==
    \/ \E f \in FileNames : IngestRead(f)
    \/ \E f \in FileNames, c \in Contents, x \in IngestEnv : Ingest(f, c, x)
    \/ \E d \in DocumentIds, x \in DeleteEnv : Delete(d, x)
    \/ ListDocuments

SessionStep ==
    \/ \E id \in SessionUuids, ts \in Readings(2) : CreateSession(id, ts)
    \/ \E id \in SessionIds, r \in Roles, m \in Texts :
            \E ts \in Readings(1) \cup Readings(3) : AppendMessage(id, r, m, ts)
    \/ \E id \in SessionIds, ts \in Readings(0) \cup Readings(1) :
            GetHistory(id, ts)
    \/ \E id \in SessionIds : ClearHistory(id)
    \/ ListSessions

QueryStep ==
    \/ \E q \in Queries, id \in SessionIds, d \in DocumentNames, x \in QueryEnv :
            SimpleQuery(q, id, d, x)
    \/ \E q \in Queries, id \in SessionIds, d \in DocumentNames, x \in PlanEnv :
            AgentPlan(q, id, d, x)
    \/ \E x \in [search : QueryExcKinds] : AgentRetrieve(x)
    \/ \E x \in [invoke : QueryExcKinds] : AgentReason(x)
    \/ \E x \in [invoke : QueryExcKinds] : AgentRespond(x)

Next == DocumentStep \/ SessionStep \/ QueryStep

Spec == Init /\ [][Next]_vars

\* the document handlers alone
SpecDocuments == Init /\ [][DocumentStep]_vars

\* the session handlers alone, on a deployment whose collection is empty
InitFresh == Init /\ store = {}

SpecSessions == InitFresh /\ [][SessionStep]_vars

\* the query handlers alone
SpecQueries == Init /\ [][QueryStep]_vars

\* the query handlers on a deployment whose collection holds at least as many
\* chunks as the agent pipeline's search asks for
InitLarge ==
    /\ chat_history = EmptyDict
    /\ document_metadata = <<>>
    /\ content_hashes = EmptyDict
    /\ session_registry = <<>>
    /\ instances = {}
    /\ store \in {S \in SUBSET LargeCollection :
                    Cardinality(S) >= MAX_RETRIEVED_CHUNKS}
    /\ now = 0
    /\ pc = "idle"
    /\ agent = AgentIdle
    /\ stages = <<>>
    /\ calls = <<>>
    /\ resp = Resp("none", 0, "none")
    /\ uploads = [f \in FileNames |-> 0]

SpecRetrieval == InitLarge /\ [][QueryStep]_vars

\* one client keeps a conversation in session s1 and sends queries, over a
\* collection of at most one chunk
InitSmall == Init /\ Cardinality(store) <= 1

ConversationStep ==
    \/ \E m \in Texts, ts \in Readings(1) \cup Readings(3) :
            AppendMessage("s1", "user", m, ts)
    \/ QueryStep

SpecConversation == InitSmall /\ [][ConversationStep]_vars

\* the value uuid4() returns in start_new_session where only the number of
\* sessions matters: fresh, and named by the order in which it is drawn
NextSessionUuid == Len(session_registry) + 1

\* POST /chat/new_session, over and over
GrowthStep ==
    /\ Len(session_registry) < MaxSessions
    /\ \E ts \in Readings(2) : CreateSession(NextSessionUuid, ts)

SpecSessionGrowth == InitFresh /\ [][GrowthStep]_vars

(* ------------------------------- claims ------------------------------- *)
Last(s) == s[Len(s)]

Count(s, v) == Cardinality({i \in 1..Len(s) : s[i] = v})

\* the extension of a file name as the specification means it: what follows
\* the last dot, in lower case
Extension(filename) == lstrip_dot(lower(splitext_ext(filename)))

SpecifiedTypes == {<<"pdf">>, <<"txt">>, <<"csv">>, <<"xlsx">>, <<"xls">>}

\* every collaborator of an ingest returns normally and the file has chunks
Healthy(x) ==
    /\ x.embeddings = "none" /\ x.vector_store = "none" /\ x.load = "none"
    /\ x.add = "none" /\ x.n_chunks > 0

\* C1 (as stated): an ingest of a supported file whose bytes are not registered,
\* with every collaborator healthy, succeeds with a chunk count above 0 and
\* registers the hash; an ingest of bytes that are registered is answered 409
\* and leaves the sizes of both registry maps as they were.
C1_SameFileTwice ==
    [][\A f \in FileNames, c \in Contents, x \in IngestEnv :
        (Extension(f) \in SpecifiedTypes /\ Healthy(x) /\ Ingest(f, c, x)) =>
            IF sha256(c) \notin DOMAIN content_hashes
            THEN /\ resp'.status = 200
                 /\ resp'.chunks > 0
                 /\ sha256(c) \in DOMAIN content_hashes'
            ELSE /\ resp'.status = 409
                 /\ Len(document_metadata') = Len(document_metadata)
                 /\ Cardinality(DOMAIN content_hashes') =
                        Cardinality(DOMAIN content_hashes)]_vars

\* No ingest gets past self._validate_file, which RAGService does not define, and
\* nothing else fills the registry (_load_existing_document_metadata has no
\* caller): both document maps stay empty, and no delete finds its id.
DocumentRegistryStaysEmpty ==
    /\ document_metadata = <<>>
    /\ content_hashes = EmptyDict
    /\ resp.op = "ingest" => resp.status \in {400, 500}
    /\ resp.op = "delete" => resp.status = 404

\* C5: an ingest of a file whose extension is outside {pdf, txt, csv, xlsx, xls}
\* is answered 400 before the loader, the splitter or the collection is called,
\* and leaves the registry maps and the collection as they were.
C5_UnsupportedRejected ==
    [][(resp'.op = "ingest" /\ Extension(resp'.filename) \notin SpecifiedTypes) =>
        /\ resp'.status = 400
        /\ calls' = <<>>
        /\ store' = store
        /\ UNCHANGED <<document_metadata, content_hashes>>]_vars

\* C5 happens: a .docx upload was answered 400 while the collection holds chunks
C5_Witness ==
    /\ resp.op = "ingest"
    /\ resp.filename = <<"c", ".", "docx">>
    /\ resp.status = 400
    /\ store # {}

\* C7: a delete of an id that is not in the document registry is answered 404,
\* calls nothing of the vector store (not even its getter) and leaves both
\* registry maps and the collection as they were.
C7_DeleteUnknown ==
    [][(resp'.op = "delete" /\ resp'.id \notin DocIds(document_metadata)) =>
        /\ resp'.status = 404
        /\ calls' = <<>>
        /\ instances' = instances
        /\ store' = store
        /\ UNCHANGED <<document_metadata, content_hashes>>]_vars

\* C7 happens: a delete of an unregistered id, whose chunks the collection
\* holds, was answered 404
C7_Witness ==
    /\ resp.op = "delete"
    /\ resp.status = 404
    /\ resp.id = "doc1"
    /\ \E c \in store : c.document_id = "doc1"

\* the ids list_sessions() returns over the session maps sr and ch
ListedIdsOf(sr, ch) ==
    LET listed == all_sessions(sr, ch)
    IN  {listed[i].session_id : i \in 1..Len(listed)}

\* the ids list_sessions() returns
ListedIds == ListedIdsOf(session_registry, chat_history)

\* get_history(id) over the history map ch, read without a handler's side effect
HistoryOf(ch, id) == IF id \in DOMAIN ch THEN ch[id] ELSE <<>>

History(id) == HistoryOf(chat_history, id)

\* C8: create_session returns an id list_sessions() did not hold; after it the
\* id is listed, its history is empty, and every other session's registry
\* entry and history are as before.
C8_CreateSession ==
    [][resp'.op = "new_session" =>
        /\ resp'.id \notin ListedIds
        /\ resp'.id \in ListedIdsOf(session_registry', chat_history')
        /\ resp'.id \in DOMAIN chat_history'
        /\ HistoryOf(chat_history', resp'.id) = <<>>
        /\ SessIds(session_registry') = SessIds(session_registry) \cup {resp'.id}
        /\ DOMAIN chat_history' = DOMAIN chat_history \cup {resp'.id}
        /\ \A i \in 1..Len(session_registry) :
                session_registry'[i] = session_registry[i]
        /\ \A id \in DOMAIN chat_history \ {resp'.id} :
                chat_history'[id] = chat_history[id]]_vars

\* C8 happens: a session was created beside one that holds messages
C8_Witness ==
    /\ resp.op = "new_session"
    /\ resp.id = "u1"
    /\ History("u1") = <<>>
    /\ "s1" \in ListedIds
    /\ Len(History("s1")) = MaxMsgs

\* C9: append_message on an id that is no known session creates the session,
\* and its history is then exactly that one message.
C9_AppendUnknown ==
    [][(resp'.op = "message" /\ resp'.id \notin ListedIds) =>
        \A r \in Roles, m \in Texts :
            (\E ts \in Readings(3) : AppendMessage(resp'.id, r, m, ts)) =>
                /\ resp'.id \in ListedIdsOf(session_registry', chat_history')
                /\ HistoryOf(chat_history', resp'.id) =
                        <<[role |-> r, content |-> m]>>]_vars

\* C9 happens: the session s1, which only a message can create, holds one
\* message, stored at the instant the session was created
C9_Witness ==
    /\ resp.op = "message"
    /\ resp.id = "s1"
    /\ Len(History("s1")) = 1
    /\ "s1" \in ListedIds
    /\ \E i \in 1..Len(session_registry) :
            /\ session_registry[i].session_id = "s1"
            /\ session_registry[i].created_at = now
            /\ session_registry[i].last_accessed = now

\* the retrieve stage can only return zero chunks
NothingToRetrieve == similarity_search(store, MAX_RETRIEVED_CHUNKS, <<>>) = {{}}

\* C10: when the retrieve stage returns zero chunks, execute ends there with
\* the canned answer, having invoked plan and retrieve only and the chat model
\* once; and the reason and respond stages are invoked only with chunks.
C10_NoChunksShortCircuit ==
    [][/\ (pc = "planned" /\ NothingToRetrieve
           /\ AgentRetrieve([search |-> "none"])) =>
                /\ pc' = "idle"
                /\ resp'.status = 200
                /\ resp'.answer = NoInfoAgent
                /\ stages' = <<"plan", "retrieve">>
                /\ Count(calls', "invoke") = 1
       /\ (Len(stages') = Len(stages) + 1
           /\ Last(stages') \in {"reason", "respond"}) =>
                agent.documents # {}]_vars

\* C10 happens: an execution over an empty collection ended after retrieve
C10_Witness ==
    /\ pc = "idle"
    /\ store = {}
    /\ resp.op = "agents"
    /\ resp.status = 200
    /\ resp.answer = NoInfoAgent
    /\ stages = <<"plan", "retrieve">>
    /\ calls = <<"invoke", "search">>

\* the vector store is there or can be built, and the search returns
SearchReturns(x) ==
    /\ get_vector_store(instances, x).exc = "none"
    /\ x.search = "none"

\* the chunks a simple query can match: all of them, or those of one file name
Matching(document_name) ==
    IF document_name = <<>> THEN store
    ELSE {c \in store : c.filename = document_name}

\* C11: a simple query whose similarity search returns no chunks (in particular
\* one whose document_name is the name of no stored chunk, whatever else the
\* collection holds) is answered 200 with the canned no-information text, and
\* the chat model is neither built nor called.
C11_NoChunksCannedAnswer ==
    [][(resp'.op = "query" /\ resp'.status # 400) =>
        \A d \in {n \in DocumentNames : Matching(n) = {}} :
            \A x \in {e \in QueryEnv : SearchReturns(e)} :
                \A q \in {s \in Queries : strip(s) # <<>>}, id \in SessionIds :
                    SimpleQuery(q, id, d, x) =>
                        /\ resp'.status = 200
                        /\ resp'.answer = NoInfoSimple
                        /\ calls' = <<"search">>
                        /\ "llm" \in instances' => "llm" \in instances]_vars

\* C11 happens: over a collection that holds chunks, a query was answered with
\* the canned text after a search and no chat-model call (so it named a file
\* that has no chunk)
C11_Witness ==
    /\ resp.op = "query"
    /\ resp.status = 200
    /\ resp.answer = NoInfoSimple
    /\ calls = <<"search">>
    /\ store # {}
    /\ "llm" \notin instances


\* the stages of the pipeline in the order the specification gives them
StageOrder == <<"plan", "retrieve", "reason", "respond">>

IsPrefix(s, t) == Len(s) <= Len(t) /\ s = SubSeq(t, 1, Len(s))

\* an execution of the pipeline has returned a result
Returned == pc = "idle" /\ resp.op = "agents" /\ resp.status = 200

\* the stages invoked so far are an initial part of plan, retrieve, reason,
\* respond (so each at most once, in that order), and a returned execution
\* stands after respond or after a retrieve that found nothing
C12_States ==
    /\ IsPrefix(stages, StageOrder)
    /\ Returned =>
        \/ stages = StageOrder /\ resp.answer = LlmText
        \/ stages = <<"plan", "retrieve">> /\ resp.answer = NoInfoAgent

\* a stage after the first is invoked only where its predecessor has returned,
\* with what the predecessor returned
C12_Steps ==
    Len(stages') = Len(stages) + 1 /\ stages # <<>> =>
        /\ Last(stages') = "retrieve" => pc = "planned" /\ agent.plan # <<>>
        /\ Last(stages') = "reason" => pc = "retrieved" /\ agent.documents # {}
        /\ Last(stages') = "respond" => pc = "reasoned" /\ agent.analysis # ""

\* C12: every execution invokes plan, retrieve, reason, respond in that order,
\* each at most once and none before its predecessor has returned; an
\* execution that raises nothing ends after respond or directly after a
\* retrieve that found no chunks, and nowhere else.
C12_StageMachine == []C12_States /\ [][C12_Steps]_vars

\* C12 happens: an execution went through all four stages and returned
C12_Witness ==
    /\ Returned
    /\ stages = StageOrder
    /\ calls = <<"invoke", "search", "invoke", "invoke">>
    /\ resp.answer = LlmText
    /\ resp.reasoning = LlmText


\* the request of an execution ended as a server error that carries no result
Failed ==
    /\ pc = "idle"
    /\ agent = AgentIdle
    /\ resp.op = "agents"
    /\ resp.status = 500
    /\ resp.exc \notin {"none", "HTTPException"}
    /\ resp.answer = ""
    /\ resp.plan = <<>>
    /\ resp.reasoning = ""
    /\ resp.agent_reasoning = FALSE

\* the orchestrator is there or can be built, and the plan stage raises
PlanRaises(x) ==
    get_agent_orchestrator(instances, x).exc = "none" /\ x.invoke # "none"

C13_Steps ==
    /\ (pc = "idle" /\ stages' = <<"plan">>) =>
            \A x \in {e \in PlanEnv : PlanRaises(e)} :
                \A q \in Queries, id \in SessionIds, d \in DocumentNames :
                    AgentPlan(q, id, d, x) => Failed'
    /\ \A x \in [search : QueryExcKinds \ {"none"}] :
            AgentRetrieve(x) => Failed' /\ stages' = <<"plan", "retrieve">>
    /\ \A x \in [invoke : QueryExcKinds \ {"none"}] :
            /\ AgentReason(x) =>
                    Failed' /\ stages' = <<"plan", "retrieve", "reason">>
            /\ AgentRespond(x) => Failed' /\ stages' = StageOrder
    /\ (resp.op = "agents" /\ resp.status = 500 /\ stages' # stages) =>
            stages' \in {<<>>, <<"plan">>}

\* C13: when a stage of the pipeline raises, the exception leaves execute: the
\* request is answered 500 with no result (no answer, no plan, no reasoning),
\* the failing stage was invoked once, and no stage of that execution is
\* invoked afterwards (the next stage to run is the plan of another request).
C13_StageFailure == [][C13_Steps]_vars

\* C13 happens: the reason stage raised after plan and retrieve had returned
C13_Witness ==
    /\ Failed
    /\ stages = <<"plan", "retrieve", "reason">>
    /\ calls = <<"invoke", "search", "invoke">>


\* a query that is empty or holds nothing but whitespace
Blank(q) == \A i \in 1..Len(q) : q[i] = " "

\* the step is a rejection: a 400 with no answer, no collaborator built or
\* called, no stage invoked, the registry and the collection as they were
Rejects ==
    /\ resp'.status = 400
    /\ resp'.exc = "HTTPException"
    /\ resp'.answer = ""
    /\ calls' = <<>>
    /\ instances' = instances
    /\ pc' = "idle"
    /\ stages' \in {stages, <<>>}
    /\ store' = store
    /\ UNCHANGED registry

\* the step is the simple-query or the agent-query handler on a blank query
BlankQueryStep ==
    \E q \in {s \in Queries : Blank(s)}, id \in SessionIds, d \in DocumentNames :
        \/ \E x \in QueryEnv : SimpleQuery(q, id, d, x)
        \/ \E x \in PlanEnv : AgentPlan(q, id, d, x)

\* C14: a query that is empty or only whitespace, sent to POST /query or to
\* POST /query/agents, is answered 400 before any similarity search or
\* chat-model call, whatever the collaborators would have done, and the
\* registry is unchanged.
C14_BlankQueryRejected == [][Rejects \/ ~BlankQueryStep]_vars

\* C14 happens: a blank query was answered 400 over a collection that holds
\* chunks, with the vector store and the chat model still not built
C14_Witness ==
    /\ resp.op \in {"query", "agents"}
    /\ resp.status = 400
    /\ calls = <<>>
    /\ store # {}
    /\ instances = {}


\* the documents whose chunks the collection holds
StoredDocumentIds == {c.document_id : c \in store}

\* the ids list_documents() returns
ListedDocumentIds ==
    {get_uploaded_documents[i].id : i \in 1..Len(get_uploaded_documents)}

\* C15 (as stated): in a process started over a collection that holds chunks of
\* earlier ingested documents, list_documents() lists each of those documents
\* once, and an ingest of bytes identical to one of them, with a supported file
\* name, is answered 409.
C15_RegistryRebuilt ==
    [][/\ ListDocuments =>
            /\ StoredDocumentIds \subseteq ListedDocumentIds
            /\ Len(get_uploaded_documents) = Cardinality(ListedDocumentIds)
       /\ (resp'.op = "ingest" /\ resp'.status \notin {400, 409}) =>
            \A c \in {b \in Contents : \E k \in store : k.content_hash = sha256(b)} :
                \A f \in {n \in FileNames : api_supported(n)}, x \in IngestEnv :
                    ~Ingest(f, c, x)]_vars


\* the registry entry of a registered session
SessionEntry(id) == session_registry[SessIndex(session_registry, id)]

\* C16: list_sessions() returns every registered session exactly once and
\* nothing else, most recently accessed first, each entry with the session's
\* last_accessed and with a message_count equal to the length of its history.
C16_ListSessions ==
    LET listed == get_all_sessions
    IN  /\ \A id \in SessIds(session_registry) :
                Cardinality({i \in 1..Len(listed) : listed[i].session_id = id}) = 1
        /\ \A i \in 1..Len(listed) :
                /\ listed[i].session_id \in SessIds(session_registry)
                /\ listed[i].last_accessed =
                        SessionEntry(listed[i].session_id).last_accessed
                /\ listed[i].message_count = Len(History(listed[i].session_id))
        /\ \A i, j \in 1..Len(listed) :
                i < j => listed[i].last_accessed >= listed[j].last_accessed

\* C16 happens: the sessions were listed when the session registered first was
\* accessed last but not least recently, so the list is not in registry order,
\* and one of them holds messages
C16_Witness ==
    /\ resp.op = "sessions"
    /\ Len(session_registry) = 2
    /\ session_registry[1].last_accessed < session_registry[2].last_accessed
    /\ get_all_sessions[1].session_id = session_registry[2].session_id
    /\ \E i \in 1..2 : get_all_sessions[i].message_count = MaxMsgs


\* C17 (as stated): a get_history, append_message or clear_history on a
\* registered session leaves that session's last_accessed at the time of the
\* operation, and no step lowers the last_accessed of any session.
C17_LastAccessedFollows ==
    [][/\ (resp'.op \in {"history", "message", "clear"}
           /\ resp'.id \in SessIds(session_registry)) =>
                session_registry'[SessIndex(session_registry', resp'.id)]
                    .last_accessed = now'
       /\ \A i \in 1..Len(session_registry) :
            session_registry'[i].last_accessed >= session_registry[i].last_accessed
      ]_vars


\* C20 (as stated): the number of sessions held, in the session registry and in
\* the chat-history map, never exceeds MAX_SESSIONS_IN_MEMORY, and the number
\* of content hashes held never exceeds MAX_DOCUMENTS_IN_MEMORY.
C20_MapsBounded ==
    /\ Len(session_registry) <= MAX_SESSIONS_IN_MEMORY
    /\ Cardinality(DOMAIN chat_history) <= MAX_SESSIONS_IN_MEMORY
    /\ Cardinality(DOMAIN content_hashes) <= MAX_DOCUMENTS_IN_MEMORY


\* the step is a retrieve that found nothing and returned the short-circuit
\* result
ShortCircuits == pc = "planned" /\ pc' = "idle" /\ resp'.status = 200

\* C21 (as stated): the short-circuit result carries the plan of the plan
\* stage, an empty reasoning field, and agent_reasoning true.
C21_EmptyReasoning ==
    [][ShortCircuits =>
        /\ agent.plan # <<>>
        /\ resp'.plan = agent.plan
        /\ resp'.reasoning = ""
        /\ resp'.agent_reasoning = TRUE]_vars

\* C21 (amended): the short-circuit result carries the plan of the plan stage,
\* agent_reasoning true, and as reasoning the fixed note "No documents
\* retrieved", which is not the empty string and not an analysis of the
\* reason stage (that stage was not invoked).
C21_ShortCircuitResult ==
    [][ShortCircuits =>
        /\ agent.plan # <<>>
        /\ resp'.plan = agent.plan
        /\ resp'.reasoning = "No documents retrieved"
        /\ resp'.agent_reasoning = TRUE
        /\ "reason" \notin Range(stages')]_vars

\* C21 happens: a short-circuit result holding the planner's text and the note
C21_Witness ==
    /\ pc = "idle"
    /\ resp.op = "agents"
    /\ resp.answer = NoInfoAgent
    /\ resp.plan = <<LlmText>>
    /\ resp.reasoning = "No documents retrieved"
    /\ resp.agent_reasoning = TRUE
    /\ stages = <<"plan", "retrieve">>


\* C26 (as stated): every message stored in any session's history has the role
\* "user" or "assistant".
C26_RolesUserOrAssistant ==
    \A id \in DOMAIN chat_history :
        \A i \in 1..Len(chat_history[id]) :
            chat_history[id][i].role \in {"user", "assistant"}


\* the session registry and the chat-history map hold the same session ids
C28_SameIds == SessIds(session_registry) = DOMAIN chat_history

\* a get_history or clear_history on an id that is in neither map leaves both
\* maps as they were
C28_UnknownIdAddsNothing ==
    (/\ resp'.op \in {"history", "clear"}
     /\ resp'.id \notin SessIds(session_registry) \cup DOMAIN chat_history) =>
        UNCHANGED <<session_registry, chat_history>>

\* C28: in every state reachable by create_session, append_message,
\* get_history, clear_history and list_sessions calls, the session registry and
\* the chat-history map hold the same set of session ids; get_history and
\* clear_history on an unknown id add no entry to either map.
C28_MapsAgree == []C28_SameIds /\ [][C28_UnknownIdAddsNothing]_vars

\* C28 happens: the history of an unknown id was read while another session,
\* created by a message, is held in both maps
C28_Witness ==
    /\ resp.op = "history"
    /\ resp.id = "u1"
    /\ "u1" \notin DOMAIN chat_history
    /\ SessIds(session_registry) = {"s1"}
    /\ DOMAIN chat_history = {"s1"}


\* C29: clear_history(id) is answered 200; on a session that exists it leaves
\* the history empty, the session listed with its created_at, and every other
\* session's history as it was; on a session whose history is empty already,
\* or on an unknown id, it changes nothing.
C29_ClearHistory ==
    [][resp'.op = "clear" =>
        /\ resp'.status = 200
        /\ ListedIdsOf(session_registry', chat_history') = ListedIds
        /\ \A i \in 1..Len(session_registry) :
                /\ session_registry'[i].session_id = session_registry[i].session_id
                /\ session_registry'[i].created_at = session_registry[i].created_at
        /\ DOMAIN chat_history' = DOMAIN chat_history
        /\ \A id \in DOMAIN chat_history :
                chat_history'[id] = IF id = resp'.id THEN <<>> ELSE chat_history[id]
        /\ HistoryOf(chat_history, resp'.id) = <<>> =>
                UNCHANGED <<chat_history, session_registry>>]_vars

\* C29 happens: the session s1, which a message created, was cleared and is
\* listed with an empty history beside another session
C29_Witness ==
    /\ resp.op = "clear"
    /\ resp.id = "s1"
    /\ ListedIds = {"u1", "s1"}
    /\ History("s1") = <<>>
    /\ SessionEntry("s1").created_at = 0
    /\ now = MaxTime


\* the smaller of two numbers
Min2(a, b) == IF a < b THEN a ELSE b

\* C22 (as stated): the retrieve stage applies no document-name filter: whatever
\* document_name and session_id the request carried, it retrieves the nearest
\* MAX_RETRIEVED_CHUNKS chunks of the whole collection (all of them when the
\* collection holds fewer); and the same constant bounds the number of chunks
\* a simple-mode search returns.
C22_SameK ==
    [][/\ (pc = "planned" /\ pc' = "retrieved") =>
            /\ agent'.documents \subseteq store
            /\ Cardinality(agent'.documents) =
                    Min2(MAX_RETRIEVED_CHUNKS, Cardinality(store))
       /\ resp'.op = "query" => resp'.chunks <= MAX_RETRIEVED_CHUNKS]_vars


\* the step belongs to a simple query or to an execution of the agent pipeline
QueryHandlerStep == resp'.op \in {"query", "agents"} \/ pc # "idle"

\* C27: a simple query and an agent query, whatever their outcome, leave the
\* session registry, every chat history, the document-metadata map and the
\* content-hash map as they were; in particular the session a query names is
\* not created and a known session's history gets no message.
C27_QueriesLeaveRegistry ==
    [][QueryHandlerStep =>
        /\ UNCHANGED <<session_registry, chat_history>>
        /\ UNCHANGED <<document_metadata, content_hashes>>]_vars

\* C27 happens: a query was answered by the chat model while session s1 holds
\* messages and the other session id queries carry is still unknown
C27_Witness ==
    /\ resp.op \in {"query", "agents"}
    /\ resp.status = 200
    /\ resp.answer = LlmText
    /\ Len(History("s1")) = MaxMsgs
    /\ ListedIds = {"s1"}
    /\ DOMAIN chat_history = {"s1"}


\* the search and every chat-model call of the handler return
CallsReturn(x) == x.search = "none" /\ x.invoke = "none"

\* a handle is built by a step that has come to use it: the vector store (and
\* the embedding model under it) by a query that passed the blank check, the
\* chat-model client by a simple query only after its search, or with the
\* orchestrator by an agent query
C24_BuiltOnFirstUse ==
    /\ instances \subseteq instances'
    /\ instances' # instances =>
            /\ pc = "idle"
            /\ resp'.op \in {"query", "agents"}
            /\ resp'.status # 400
    /\ "vector_store" \in instances' => "embeddings" \in instances'
    /\ "agent_orchestrator" \in instances' => {"llm", "vector_store"} \subseteq instances'
    /\ (resp'.op = "query" /\ "llm" \in instances' /\ "llm" \notin instances) =>
            "search" \in Range(calls')

\* with its handles stored, a handler fails only where a call fails, never in
\* a constructor: whatever the constructors would do, they are not run again
C24_NotBuiltAgain ==
    /\ (/\ {"vector_store", "llm"} \subseteq instances
        /\ resp'.op = "query"
        /\ resp'.status = 500) =>
            ~\E x \in {e \in QueryEnv : CallsReturn(e)} :
                \E q \in Queries, id \in SessionIds, d \in DocumentNames :
                    SimpleQuery(q, id, d, x)
    /\ (/\ "agent_orchestrator" \in instances
        /\ pc = "idle"
        /\ resp'.op = "agents"
        /\ resp'.status = 500) =>
            ~\E x \in {e \in PlanEnv : e.invoke = "none"} :
                \E q \in Queries, id \in SessionIds, d \in DocumentNames :
                    AgentPlan(q, id, d, x)

\* C24: no heavy resource exists before its first use; each is built by the
\* first handler that needs it; a stored handle is never dropped, and once it
\* is stored no later getter call runs the constructor again.
C24_LazyHandles == [][C24_BuiltOnFirstUse /\ C24_NotBuiltAgain]_vars

\* C24 happens: all four handles are stored and a later simple query was
\* answered by the chat model
C24_Witness ==
    /\ instances = {"embeddings", "vector_store", "llm", "agent_orchestrator"}
    /\ resp.op = "query"
    /\ resp.status = 200
    /\ resp.answer = LlmText
    /\ stages = StageOrder


\* an append_message on id is acknowledged and the history of id holds no more
\* messages than before it
LostUpdateStep(id) ==
    \E r \in Roles, m \in Texts, ts \in Readings(1) \cup Readings(3) :
        /\ AppendMessage(id, r, m, ts)
        /\ Len(chat_history'[id]) <= Len(chat_history[id])

\* C25 (as stated): where a session holds the message of one acknowledged
\* append_message, a second append_message on it can be acknowledged and leave
\* the history with a single message: the lost update is a possible step.
C25_LostUpdatePossible ==
    \A id \in SessionIds :
        (id \in DOMAIN chat_history /\ Len(chat_history[id]) = 1) =>
            ENABLED LostUpdateStep(id)

\* C25 (amended): append_message calls on one session id, however they arrive,
\* run one after the other; each acknowledged call leaves the history it found
\* with its own message added at the end, and no other history changed, so
\* after two acknowledged calls the history holds both messages.
C25_AppendsSerialized ==
    [][resp'.op = "message" =>
        LET before == HistoryOf(chat_history, resp'.id)
            after == HistoryOf(chat_history', resp'.id)
        IN  /\ resp'.status = 200
            /\ Len(after) = Len(before) + 1
            /\ SubSeq(after, 1, Len(before)) = before
            /\ \A id \in DOMAIN chat_history \ {resp'.id} :
                    chat_history'[id] = chat_history[id]]_vars

\* C25 happens: two appends on the session s1, which the first of them
\* created, were acknowledged and both messages are held, in order
C25_Witness ==
    /\ resp.op = "message"
    /\ resp.id = "s1"
    /\ History("s1") = <<[role |-> "user", content |-> "hi"],
                         [role |-> "assistant", content |-> "hi"]>>
    /\ SessionEntry("s1").created_at = SessionEntry("s1").last_accessed


====
